---- MODULE Spec2Model ----
(***************************************************************************)
(* A model of the sodoku solver: the grid (puzzle.py), one square          *)
(* (square.py) and the hint generation (solver.py).                        *)
(*                                                                         *)
(* Python values are modelled as follows.                                  *)
(*   - An optional argument or an optional value (None or an int) is a     *)
(*     sequence: <<>> is None, <<v>> is the int v.                         *)
(*   - A list or a tuple is a sequence.  A list of Square objects is a     *)
(*     sequence of references; the reference of a square is its 0-based    *)
(*     position in Puzzle.linear.                                          *)
(*   - A string is a sequence of one-character strings.                    *)
(*   - A call that raises is recorded by the name of the exception.        *)
(***************************************************************************)
EXTENDS Integers, Sequences, FiniteSets, TLC

VARIABLES rank, linear, sq, call, args, err, ret, steps

vars == <<rank, linear, sq, call, args, err, ret, steps>>

\* Largest rank of the addressing specification, largest rank of a grid that
\* is read and solved, longest run of grid operations, last square of the
\* grid that is solved directly, largest hint value and longest hint tuple of
\* the single square.
MaxRank == 3
MaxGridRank == 2
MaxSteps == 3
MaxCell == 3
MaxValue == 3
MaxHints == 3

None == <<>>
Some(v) == <<v>>

Raise(e) == [err |-> e, kind |-> "none", items |-> <<>>]
Return(k, xs) == [err |-> "none", kind |-> k, items |-> xs]

\* int(a / b) for b > 0: true division, then truncation toward zero.
TruncDiv(a, b) == IF a >= 0 THEN a \div b ELSE -((-a) \div b)

\* a % b of Python for b > 0: the result is in 0 .. b-1.
PyMod(a, b) == ((a % b) + b) % b

Min(a, b) == IF a < b THEN a ELSE b
Max(a, b) == IF a > b THEN a ELSE b

\* seq[lo:hi] of Python: negative bounds count from the end, and both bounds
\* are clamped to the sequence; never raises.
PySlice(s, lo, hi) ==
    LET n == Len(s)
        a == IF lo < 0 THEN Max(lo + n, 0) ELSE Min(lo, n)
        b == IF hi < 0 THEN Max(hi + n, 0) ELSE Min(hi, n)
    IN  IF a < b THEN SubSeq(s, a + 1, b) ELSE <<>>

\* Whether seq[i] of Python raises IndexError.
PyIndexFails(s, i) == i >= Len(s) \/ i < -Len(s)

\* seq[i] of Python where it does not raise: a negative index counts from the
\* end.
PyIndex(s, i) == IF i < 0 THEN s[i + Len(s) + 1] ELSE s[i + 1]

\* The references of the squares of a list of n squares.
Refs(n) == [i \in 1..n |-> i - 1]

RECURSIVE BoxRowsWholeRows(_, _, _, _, _, _)
\* The box loop with the column bounds forgotten: whole rows are gathered.
BoxRowsWholeRows(lin, rnk, sRow, rMax, cMin, cMax) ==
    IF sRow >= rMax THEN <<>>
    ELSE PySlice(lin, sRow * rnk * rnk, (sRow + 1) * rnk * rnk)
         \o BoxRowsWholeRows(lin, rnk, sRow + 1, rMax, cMin, cMax)

RECURSIVE BoxRows(_, _, _, _, _, _)
\* The loop of Puzzle.at that gathers the rows sRow .. rMax-1 of a box.
BoxRows(lin, rnk, sRow, rMax, cMin, cMax) ==
    IF sRow >= rMax THEN <<>>
    ELSE PySlice(lin, sRow * rnk * rnk + cMin, sRow * rnk * rnk + cMax)
         \o BoxRows(lin, rnk, sRow + 1, rMax, cMin, cMax)

\* Puzzle.at(box, row, col) on the list lin of a puzzle of rank rnk.
at(lin, rnk, box, row, col) ==
    LET b == IF box = None THEN 0 ELSE box[1]
        boxRow == TruncDiv(b, rnk)
        boxCol == PyMod(b, rnk)
        rMin == boxRow * rnk
        rMax == (boxRow + 1) * rnk
        cMin == boxCol * rnk
        cMax == (boxCol + 1) * rnk
        linearised == IF box = None THEN lin
                      ELSE BoxRows(lin, rnk, rMin, rMax, cMin, cMax)
        lRow == IF box # None /\ row # None THEN PyMod(row[1], rnk)
                ELSE IF row # None THEN row[1] ELSE 0
        lCol == IF box # None /\ col # None THEN PyMod(col[1], rnk)
                ELSE IF col # None THEN col[1] ELSE 0
        rowSize == IF box # None THEN rnk ELSE rnk * rnk
        rowOut == PySlice(linearised, lRow * rowSize, (lRow + 1) * rowSize)
        colSize == IF box # None THEN 1 ELSE rnk
        gap == colSize * rnk
        colIdx == [rowI \in 1..(colSize * rnk) |-> gap * (rowI - 1) + lCol]
    IN  IF box # None /\ b >= rnk * rnk THEN Raise("ValueError")
        ELSE IF box # None /\ row # None /\ (row[1] < rMin \/ row[1] >= rMax)
        THEN Raise("ValueError")
        ELSE IF box # None /\ col # None /\ (col[1] < cMin \/ col[1] >= cMax)
        THEN Raise("ValueError")
        ELSE IF row # None
        THEN IF col # None
             THEN IF PyIndexFails(rowOut, lCol) THEN Raise("IndexError")
                  ELSE Return("square", <<PyIndex(rowOut, lCol)>>)
             ELSE Return("list", rowOut)
        ELSE IF col # None
        THEN IF \E k \in DOMAIN colIdx : PyIndexFails(linearised, colIdx[k])
             THEN Raise("IndexError")
             ELSE Return("list", [k \in DOMAIN colIdx |-> PyIndex(linearised, colIdx[k])])
        ELSE Return("list", linearised)

\* Puzzle.localToPuzzle(box, lRow, lCol): the pair (row, col).
localToPuzzle(rnk, box, lRow, lCol) ==
    <<TruncDiv(box, 3) * rnk + lRow, box * rnk + lCol>>

(***************************************************************************)
(* Square (square.py).  A square is a record: state is "c", "s" or "u";    *)
(* value is None or Some(v); hints holds the items of self.hints, and      *)
(* hintsType says whether self.hints is a tuple or, after solve, the bare  *)
(* int that the expression (value) denotes.                                *)
(***************************************************************************)
Range(s) == {s[i] : i \in DOMAIN s}

\* Square.__init__(hints, clue, solved); a clue or solution of 0 is falsy.
Square(hints, clue, solved) ==
    IF clue # None /\ clue[1] # 0
    THEN [state |-> "c", value |-> clue, hints |-> <<clue[1]>>, hintsType |-> "tuple"]
    ELSE IF solved # None /\ solved[1] # 0
    THEN [state |-> "s", value |-> solved, hints |-> <<solved[1]>>, hintsType |-> "tuple"]
    ELSE [state |-> "u", value |-> None, hints |-> hints, hintsType |-> "tuple"]

\* The outcome of a Square method: the exception, the square afterwards and
\* the value returned (a sequence; <<>> when nothing is returned).
SqRaise(e, s) == [err |-> e, sq |-> s, ret |-> <<>>]
SqDone(s, r) == [err |-> "none", sq |-> s, ret |-> r]

\* Square.solve(value).
solve(s, value) ==
    SqDone([s EXCEPT !.value = Some(value), !.state = "s",
                     !.hints = <<value>>, !.hintsType = "int"], <<>>)

\* Square.known(): None or the value.
known(s) == IF s.state # "u" THEN s.value ELSE None

\* Square.knowns(squares): the set of the known values of a list of squares.
knowns(squares) ==
    {known(squares[i])[1] : i \in {j \in DOMAIN squares : known(squares[j]) # None}}

\* Square.hintsAt(check): `check in self.hints`; an int is not iterable.
hintsAt(s, check) ==
    IF s.hintsType # "tuple" THEN SqRaise("TypeError", s)
    ELSE SqDone(s, <<check \in Range(s.hints)>>)

\* Square.addHint(hint): self.hints += (hint,).
addHint(s, hint) ==
    IF s.hintsType # "tuple" THEN SqRaise("TypeError", s)
    ELSE SqDone([s EXCEPT !.hints = @ \o <<hint>>], <<>>)

\* Square.addHints(hints): self.hints += tuple(hints).
addHints(s, hints) ==
    IF s.hintsType # "tuple" THEN SqRaise("TypeError", s)
    ELSE SqDone([s EXCEPT !.hints = @ \o hints], <<>>)

\* list.remove(x) where x is in the list: the first occurrence goes.
ListRemove(xs, x) ==
    LET i == CHOOSE k \in DOMAIN xs : xs[k] = x /\ \A j \in 1..(k - 1) : xs[j] # x
    IN  SubSeq(xs, 1, i - 1) \o SubSeq(xs, i + 1, Len(xs))

\* Square.removeHintBlind(hint): the ValueError of list.remove is swallowed,
\* the TypeError of list(int) is not.
removeHintBlind(s, hint) ==
    IF s.hintsType # "tuple" THEN SqRaise("TypeError", s)
    ELSE IF hint \in Range(s.hints)
    THEN SqDone([s EXCEPT !.hints = ListRemove(@, hint)], <<>>)
    ELSE SqDone(s, <<>>)

\* Square.removeHint(hint).
removeHint(s, hint) ==
    IF s.hintsType # "tuple" THEN SqRaise("TypeError", s)
    ELSE IF hint \in Range(s.hints)
    THEN SqDone([s EXCEPT !.hints = ListRemove(@, hint)], <<>>)
    ELSE SqRaise("ValueError", s)

(***************************************************************************)
(* Puzzle (puzzle.py) and the solver's passes (solver.py).                 *)
(***************************************************************************)
\* The characters of the puzzle strings that are read, and how many leading
\* characters of a string vary.
Chars == {".", "1", "5"}
PrefixLen == 2

\* `ch in "123456789"` for a one-character string ch.
IsClueChar(ch) == ch \in {"1", "2", "3", "4", "5", "6", "7", "8", "9"}

\* int(ch) for a digit character.
IntOfChar(ch) ==
    CASE ch = "1" -> 1 [] ch = "2" -> 2 [] ch = "3" -> 3 [] ch = "4" -> 4
      [] ch = "5" -> 5 [] ch = "6" -> 6 [] ch = "7" -> 7 [] ch = "8" -> 8
      [] ch = "9" -> 9

\* Puzzle.__init__(rank): rank**4 empty squares.
Puzzle(rnk) == [i \in 1..(rnk * rnk * rnk * rnk) |-> Square(<<>>, None, None)]

\* The outcome of an operation on the grid: the exception and the list
\* self.linear afterwards.
GridRaise(e, lin) == [err |-> e, linear |-> lin]
GridDone(lin) == [err |-> "none", linear |-> lin]

\* The parse with the list emptied before the length is checked.
readPuzzleClearsFirst(lin, rnk, puzzleString) ==
    LET n == rnk * rnk * rnk * rnk
    IN  IF Len(puzzleString) < n THEN GridRaise("ValueError", <<>>)
        ELSE GridDone([i \in 1..n |->
                 IF IsClueChar(puzzleString[i])
                 THEN Square(<<>>, Some(IntOfChar(puzzleString[i])), None)
                 ELSE Square(<<>>, None, None)])

\* Puzzle.readPuzzle(puzzleString).
readPuzzle(lin, rnk, puzzleString) ==
    LET n == rnk * rnk * rnk * rnk
        trimmed == PySlice(puzzleString, 0, n)
    IN  IF Len(puzzleString) < n THEN GridRaise("ValueError", lin)
        ELSE GridDone([i \in 1..Len(trimmed) |->
                 IF IsClueChar(trimmed[i])
                 THEN Square(<<>>, Some(IntOfChar(trimmed[i])), None)
                 ELSE Square(<<>>, None, None)])

RECURSIVE TupleOfSet(_)
\* tuple(s) for a set s of ints: CPython walks the set's hash table, which
\* gives the values below 8 (every value of a grid of rank 1 or 2) in
\* ascending order; only the order, which no property reads, differs for a
\* set holding 8 or 9.
TupleOfSet(s) ==
    IF s = {} THEN <<>>
    ELSE LET m == CHOOSE x \in s : \A y \in s : x <= y
         IN  <<m>> \o TupleOfSet(s \ {m})

\* The squares that a list of references names.
Deref(lin, refs) == [k \in DOMAIN refs |-> lin[refs[k] + 1]]

RECURSIVE genHintsLoop(_, _, _, _, _)
\* The double loop of genHints from its k-th pass on: lRow = k div rank,
\* lCol = k mod rank.
genHintsLoop(lin, rnk, box, boxUnknown, k) ==
    IF k >= rnk * rnk THEN GridDone(lin)
    ELSE
    LET refs == Refs(Len(lin))
        pos == localToPuzzle(rnk, box, k \div rnk, k % rnk)
        cell == at(refs, rnk, None, Some(pos[1]), Some(pos[2]))
    IN  IF cell.err # "none" THEN GridRaise(cell.err, lin)
        ELSE
        LET ref == cell.items[1]
            square == lin[ref + 1]
        IN  IF known(square) # None
            THEN genHintsLoop(lin, rnk, box, boxUnknown, k + 1)
            ELSE
            LET rowCells == at(refs, rnk, None, Some(pos[1]), None)
                colCells == at(refs, rnk, None, None, Some(pos[2]))
            IN  IF rowCells.err # "none" THEN GridRaise(rowCells.err, lin)
                ELSE IF colCells.err # "none" THEN GridRaise(colCells.err, lin)
                ELSE
                LET rowKnowns == knowns(Deref(lin, rowCells.items))
                    colKnowns == knowns(Deref(lin, colCells.items))
                    squareKnowns == rowKnowns \cup colKnowns
                    squareHints == boxUnknown \ squareKnowns
                    added == addHints(square, TupleOfSet(squareHints))
                IN  IF added.err # "none" THEN GridRaise(added.err, lin)
                    ELSE genHintsLoop([lin EXCEPT ![ref + 1] = added.sq],
                                      rnk, box, boxUnknown, k + 1)

\* genHints(puzzle, box).
genHints(lin, rnk, box) ==
    LET full == 1..(rnk * rnk)
        boxCells == at(Refs(Len(lin)), rnk, Some(box), None, None)
    IN  IF boxCells.err # "none" THEN GridRaise(boxCells.err, lin)
        ELSE genHintsLoop(lin, rnk, box,
                          full \ knowns(Deref(lin, boxCells.items)), 0)

\* refineHints(puzzle, box): the body is a docstring and a comment.
refineHints(lin, rnk, box) == GridDone(lin)

(***************************************************************************)
(* The grid: a Puzzle of some rank, read from strings, with squares solved *)
(* and hints generated box by box.                                         *)
(***************************************************************************)
\* The strings read: PrefixLen free characters, then blanks up to one
\* character less than, exactly, or one character more than rank**4; the
\* character past rank**4 is a digit.
PuzzleString(rnk, prefix, n) ==
    [i \in 1..n |-> IF i <= Len(prefix) THEN prefix[i]
                    ELSE IF i > rnk * rnk * rnk * rnk THEN "1" ELSE "."]

PuzzleStrings(rnk) ==
    LET n == rnk * rnk * rnk * rnk
    IN  {PuzzleString(rnk, prefix, len) :
            prefix \in [1..PrefixLen -> Chars], len \in {n - 1, n, n + 1}}

Init ==
    /\ rank \in 1..MaxGridRank
    /\ linear = Puzzle(rank)
    /\ sq = Square(<<>>, None, None)
    /\ call = "Puzzle"
    /\ args = <<>>
    /\ err = "none"
    /\ ret = <<>>
    /\ steps = 0

\* p.readPuzzle(s)
ReadPuzzle ==
    \E s \in PuzzleStrings(rank) :
        LET r == readPuzzle(linear, rank, s)
        IN  /\ steps < MaxSteps
            /\ linear' = r.linear
            /\ err' = r.err
            /\ call' = "readPuzzle"
            /\ args' = <<s>>
            /\ ret' = <<>>
            /\ steps' = steps + 1
            /\ UNCHANGED <<rank, sq>>

\* p.linear[i].solve(v)
Solve ==
    \E i \in 0..Min(MaxCell, Len(linear) - 1), v \in 1..(rank * rank) :
        LET r == solve(linear[i + 1], v)
        IN  /\ steps < MaxSteps
            /\ linear' = [linear EXCEPT ![i + 1] = r.sq]
            /\ err' = r.err
            /\ call' = "solve"
            /\ args' = <<i, v>>
            /\ ret' = <<>>
            /\ steps' = steps + 1
            /\ UNCHANGED <<rank, sq>>

\* genHints(p, box)
GenHints ==
    \E box \in 0..(rank * rank - 1) :
        LET r == genHints(linear, rank, box)
        IN  /\ steps < MaxSteps
            /\ linear' = r.linear
            /\ err' = r.err
            /\ call' = "genHints"
            /\ args' = <<box>>
            /\ ret' = <<>>
            /\ steps' = steps + 1
            /\ UNCHANGED <<rank, sq>>

\* refineHints(p, box)
RefineHints ==
    \E box \in 0..(rank * rank - 1) :
        LET r == refineHints(linear, rank, box)
        IN  /\ steps < MaxSteps
            /\ linear' = r.linear
            /\ err' = r.err
            /\ call' = "refineHints"
            /\ args' = <<box>>
            /\ ret' = <<>>
            /\ steps' = steps + 1
            /\ UNCHANGED <<rank, sq>>

Next == ReadPuzzle \/ Solve \/ GenHints \/ RefineHints

Spec == Init /\ [][Next]_vars

(***************************************************************************)
(* Addressing: Puzzle.at and Puzzle.localToPuzzle applied to a puzzle of   *)
(* each rank, with arguments in and just out of range.                     *)
(***************************************************************************)
\* None, or an int from -1 to rank**2.
OptArgs(rnk) == {None} \cup {Some(v) : v \in -1..(rnk * rnk)}

\* A puzzle of some rank and the three arguments of the one call that is
\* made on it.
IndexInit ==
    /\ rank \in 1..MaxRank
    /\ linear = Puzzle(rank)
    /\ sq = Square(<<>>, None, None)
    /\ call = "Puzzle"
    /\ args \in OptArgs(rank) \X OptArgs(rank) \X OptArgs(rank)
    /\ err = "none"
    /\ ret = Return("none", <<>>)
    /\ steps = 0

\* p.at(box, row, col); the squares returned are given by reference.
At ==
    LET r == at(Refs(Len(linear)), rank, args[1], args[2], args[3])
    IN  /\ call = "Puzzle"
        /\ call' = "at"
        /\ err' = r.err
        /\ ret' = r
        /\ UNCHANGED <<rank, linear, sq, args, steps>>

\* p.localToPuzzle(box, lRow, lCol)
LocalToPuzzle ==
    /\ call = "Puzzle"
    /\ \A k \in 1..3 : args[k] # None
    /\ call' = "localToPuzzle"
    /\ err' = "none"
    /\ ret' = Return("pair", localToPuzzle(rank, args[1][1], args[2][1], args[3][1]))
    /\ UNCHANGED <<rank, linear, sq, args, steps>>

IndexNext == At \/ LocalToPuzzle

SpecIndex == IndexInit /\ [][IndexNext]_vars

(***************************************************************************)
(* One square: constructed empty, as a clue or as a solution, then any     *)
(* sequence of its methods.                                                *)
(***************************************************************************)
Values == 1..MaxValue

SquareInit ==
    /\ rank = 1
    /\ linear = Puzzle(1)
    /\ \/ sq = Square(<<>>, None, None)
       \/ \E v \in Values : sq = Square(<<>>, Some(v), None)
       \/ \E v \in Values : sq = Square(<<>>, None, Some(v))
    /\ call = "Square"
    /\ args = <<>>
    /\ err = "none"
    /\ ret = <<>>
    /\ steps = 0

\* The effect of a method call on the square.
SquareCall(name, a, r) ==
    /\ sq' = r.sq
    /\ err' = r.err
    /\ ret' = r.ret
    /\ call' = name
    /\ args' = a
    /\ UNCHANGED <<rank, linear, steps>>

SquareSolve == \E v \in Values : SquareCall("solve", <<v>>, solve(sq, v))

SquareKnown == SquareCall("known", <<>>, SqDone(sq, known(sq)))

SquareHintsAt == \E v \in Values : SquareCall("hintsAt", <<v>>, hintsAt(sq, v))

SquareAddHint ==
    \E v \in Values :
        /\ Len(sq.hints) < MaxHints
        /\ SquareCall("addHint", <<v>>, addHint(sq, v))

SquareAddHints ==
    \E vs \in SUBSET Values :
        /\ Len(sq.hints) + Cardinality(vs) <= MaxHints
        /\ SquareCall("addHints", <<TupleOfSet(vs)>>, addHints(sq, TupleOfSet(vs)))

SquareRemoveHint ==
    \E v \in Values : SquareCall("removeHint", <<v>>, removeHint(sq, v))

SquareRemoveHintBlind ==
    \E v \in Values : SquareCall("removeHintBlind", <<v>>, removeHintBlind(sq, v))

SquareNext ==
    \/ SquareSolve \/ SquareKnown \/ SquareHintsAt \/ SquareAddHint
    \/ SquareAddHints \/ SquareRemoveHint \/ SquareRemoveHintBlind

SpecSquare == SquareInit /\ [][SquareNext]_vars

(***************************************************************************)
(* Properties.  The units of the grid are stated here by arithmetic on the *)
(* linear index of a square, independently of Puzzle.at.                   *)
(***************************************************************************)
R2 == rank * rank
R4 == rank * rank * rank * rank
Cells == 0..(R4 - 1)
RowOf(i) == i \div R2
ColOf(i) == i % R2
BoxOf(i) == (RowOf(i) \div rank) * rank + (ColOf(i) \div rank)
Ascending(s) == \A j, k \in DOMAIN s : j < k => s[j] < s[k]

\* The items of a list that at returned are exactly the squares of `cells`,
\* in ascending linear order.
IsView(r, cells) ==
    /\ r.err = "none"
    /\ r.kind = "list"
    /\ Len(r.items) = Cardinality(cells)
    /\ Range(r.items) = cells
    /\ Ascending(r.items)

IsSquare(r, cell) == r = Return("square", <<cell>>)

InGrid(a) == a # None /\ a[1] \in 0..(R2 - 1)
RowInBox(row, box) == row[1] \div rank = box[1] \div rank
ColInBox(col, box) == col[1] \div rank = box[1] % rank

\* The views at(row=r), at(col=c), at(box=b) taken on the references.
RowView(r) == at(Refs(Len(linear)), rank, None, Some(r), None)
ColView(c) == at(Refs(Len(linear)), rank, None, None, Some(c))
BoxView(b) == at(Refs(Len(linear)), rank, Some(b), None, None)

\* C3: for in-range arguments Puzzle.at returns exactly the squares of the
\* requested unit in order: a row left to right, a column top to bottom, a box
\* in row-major order, the single square (row, col), and with a box given the
\* row, column or square restricted to that box; and every square of the grid
\* is in exactly one row view, one column view and one box view.
C3_AtReturnsUnit ==
    call = "at" =>
        LET box == args[1]
            row == args[2]
            col == args[3]
        IN  /\ (box = None /\ InGrid(row) /\ col = None) =>
                  /\ IsView(ret, {i \in Cells : RowOf(i) = row[1]})
                  /\ ret.items = [k \in 1..R2 |-> row[1] * R2 + k - 1]
            /\ (box = None /\ row = None /\ InGrid(col)) =>
                  /\ IsView(ret, {i \in Cells : ColOf(i) = col[1]})
                  /\ ret.items = [k \in 1..R2 |-> (k - 1) * R2 + col[1]]
            /\ (InGrid(box) /\ row = None /\ col = None) =>
                  IsView(ret, {i \in Cells : BoxOf(i) = box[1]})
            /\ (box = None /\ InGrid(row) /\ InGrid(col)) =>
                  IsSquare(ret, row[1] * R2 + col[1])
            /\ (InGrid(box) /\ InGrid(row) /\ RowInBox(row, box) /\ col = None) =>
                  /\ IsView(ret, {i \in Cells : BoxOf(i) = box[1] /\ RowOf(i) = row[1]})
                  /\ Len(ret.items) = rank
            /\ (InGrid(box) /\ row = None /\ InGrid(col) /\ ColInBox(col, box)) =>
                  /\ IsView(ret, {i \in Cells : BoxOf(i) = box[1] /\ ColOf(i) = col[1]})
                  /\ Len(ret.items) = rank
            /\ (InGrid(box) /\ InGrid(row) /\ RowInBox(row, box)
                  /\ InGrid(col) /\ ColInBox(col, box)) =>
                  IsSquare(ret, row[1] * R2 + col[1])
            /\ (box = None /\ row = None /\ col = None) =>
                  /\ ret = Return("list", Refs(R4))
                  /\ \A i \in Cells :
                        /\ Cardinality({r \in 0..(R2 - 1) : i \in Range(RowView(r).items)}) = 1
                        /\ Cardinality({c \in 0..(R2 - 1) : i \in Range(ColView(c).items)}) = 1
                        /\ Cardinality({b \in 0..(R2 - 1) : i \in Range(BoxView(b).items)}) = 1

\* A column of a box other than the first was asked for and returned.
C3_Witness ==
    /\ call = "at"
    /\ rank = 2
    /\ args = <<Some(3), None, Some(2)>>
    /\ ret = Return("list", <<10, 14>>)

\* C2: for in-range box, lRow and lCol, localToPuzzle returns
\* ((box div R) * R + lRow, (box mod R) * R + lCol): a square of the grid that
\* lies in the box, at the box-local position (lRow, lCol).
C2_LocalToPuzzle ==
    (/\ call = "localToPuzzle"
     /\ args[1][1] \in 0..(R2 - 1)
     /\ args[2][1] \in 0..(rank - 1)
     /\ args[3][1] \in 0..(rank - 1)) =>
        LET row == ret.items[1]
            col == ret.items[2]
        IN  /\ row = (args[1][1] \div rank) * rank + args[2][1]
            /\ col = (args[1][1] % rank) * rank + args[3][1]
            /\ row \in 0..(R2 - 1)
            /\ col \in 0..(R2 - 1)
            /\ (row \div rank) * rank + (col \div rank) = args[1][1]
            /\ row % rank = args[2][1]
            /\ col % rank = args[3][1]

\* Some argument of Puzzle.at is outside the grid or outside the box given.
BadAtArgs(box, row, col) ==
    \/ box # None /\ ~InGrid(box)
    \/ row # None /\ ~InGrid(row)
    \/ col # None /\ ~InGrid(col)
    \/ InGrid(box) /\ InGrid(row) /\ ~RowInBox(row, box)
    \/ InGrid(box) /\ InGrid(col) /\ ~ColInBox(col, box)

\* C4: Puzzle.at and Puzzle.localToPuzzle reject with an error every box,
\* row or column outside [0, R^2), every box-local index outside [0, R) and
\* every row or column outside the box given; none returns a result.
C4_RejectsOutOfRange ==
    /\ (call = "at" /\ BadAtArgs(args[1], args[2], args[3])) => err # "none"
    /\ (/\ call = "localToPuzzle"
        /\ \/ args[1][1] \notin 0..(R2 - 1)
           \/ args[2][1] \notin 0..(rank - 1)
           \/ args[3][1] \notin 0..(rank - 1)) => err # "none"

\* The values known (Clue or Solved) among the squares `cells` of the grid.
KnownValues(cells) ==
    {linear[i + 1].value[1] : i \in {j \in cells : linear[j + 1].state # "u"}}

\* The candidates of square i: 1..R^2 less the values known in its box, its
\* row and its column.
Candidates(i) ==
    (1..R2) \ (KnownValues({j \in Cells : BoxOf(j) = BoxOf(i)})
               \cup KnownValues({j \in Cells : RowOf(j) = RowOf(i)})
               \cup KnownValues({j \in Cells : ColOf(j) = ColOf(i)}))

\* C1: genHints(puzzle, b) completes without error for every box b, and
\* afterwards the hints of every Unsolved square of box b are, as a set,
\* exactly its candidates; a repeated call leaves no stale value.
C1_GenHintsCandidates ==
    call = "genHints" =>
        /\ err = "none"
        /\ \A i \in Cells :
              (BoxOf(i) = args[1] /\ linear[i + 1].state = "u") =>
                  Range(linear[i + 1].hints) = Candidates(i)

\* The value that a character denotes at the rank of the grid, if any.
DenotesValue(ch) == IsClueChar(ch) /\ IntOfChar(ch) \in 1..R2

\* C6: after readPuzzle(s) with at least R^4 characters the grid holds exactly
\* R^4 squares; square i is Clue(v) exactly when s[i] is a digit denoting a
\* value v in 1..R^2 and is otherwise Unsolved with no value and no hints; so
\* every Clue value lies in 1..R^2.
C6_ReadPuzzleClues ==
    (call = "readPuzzle" /\ Len(args[1]) >= R4) =>
        /\ err = "none"
        /\ Len(linear) = R4
        /\ \A i \in 1..R4 :
              IF DenotesValue(args[1][i])
              THEN linear[i] = [state |-> "c", value |-> Some(IntOfChar(args[1][i])),
                                hints |-> <<IntOfChar(args[1][i])>>,
                                hintsType |-> "tuple"]
              ELSE linear[i] = [state |-> "u", value |-> None, hints |-> <<>>,
                                hintsType |-> "tuple"]
        /\ \A i \in 1..R4 : linear[i].state = "c" => linear[i].value[1] \in 1..R2

\* C7: readPuzzle(s) with fewer than R^4 characters fails with an error and
\* leaves the rank and the squares (states, values and hints) as they were.
C7_ShortStringRejected ==
    [][(call' = "readPuzzle" /\ Len(args'[1]) < rank * rank * rank * rank) =>
          /\ err' = "ValueError"
          /\ linear' = linear
          /\ rank' = rank]_vars

\* A short string was refused on a grid that holds a clue read earlier and
\* hints generated earlier.
C7_Witness ==
    /\ call = "readPuzzle"
    /\ err = "ValueError"
    /\ Len(args[1]) = R4 - 1
    /\ \E i \in 1..Len(linear) : linear[i].state = "c"
    /\ \E i \in 1..Len(linear) : linear[i].state = "u" /\ linear[i].hints # <<>>

\* A naked single of box b: an Unsolved square with exactly one hint.
NakedSingle(lin, b) ==
    \E i \in Cells :
        /\ BoxOf(i) = b
        /\ lin[i + 1].state = "u"
        /\ Cardinality(Range(lin[i + 1].hints)) = 1

\* A hidden single of box b: a value missing from the box that exactly one
\* Unsolved square of the box hints at.
HiddenSingle(lin, b) ==
    \E v \in 1..R2 :
        /\ \A i \in Cells : (BoxOf(i) = b /\ lin[i + 1].state # "u") => lin[i + 1].value # Some(v)
        /\ Cardinality({i \in Cells : /\ BoxOf(i) = b
                                     /\ lin[i + 1].state = "u"
                                     /\ v \in Range(lin[i + 1].hints)}) = 1

\* C8: after refineHints(puzzle, b) on a grid whose hints genHints(puzzle, b)
\* has just produced, box b holds neither a naked single nor a hidden single.
C8_RefineAppliesRules ==
    [][(/\ call = "genHints" /\ err = "none"
        /\ call' = "refineHints" /\ args' = args) =>
          /\ ~NakedSingle(linear', args'[1])
          /\ ~HiddenSingle(linear', args'[1])]_vars

\* C5: a square in state Clue or Solved never changes its state or value;
\* solve(value) on it fails with an error, and on an Unsolved square moves it
\* to Solved(value).
C5_KnownNeverChanges ==
    [][/\ sq.state \in {"c", "s"} =>
            /\ sq'.state = sq.state
            /\ sq'.value = sq.value
            /\ call' = "solve" => err' # "none"
       /\ (sq.state = "u" /\ call' = "solve") =>
            (sq'.state = "s" /\ sq'.value = Some(args'[1]))
       /\ (sq.state = "u" /\ call' # "solve") => sq'.state = "u"]_vars

\* C9: on an Unsolved square removeHintBlind(v) raises nothing and leaves v
\* no candidate; the membership of every other value is unchanged, and
\* nothing changes when v was no candidate.
C9_RemoveHintBlind ==
    [][(call' = "removeHintBlind" /\ sq.state = "u") =>
          /\ err' = "none"
          /\ args'[1] \notin Range(sq'.hints)
          /\ \A w \in Values \ {args'[1]} :
                (w \in Range(sq.hints)) <=> (w \in Range(sq'.hints))
          /\ args'[1] \notin Range(sq.hints) => sq' = sq]_vars

\* C10: the hints of a Clue or Solved square are exactly the one-element
\* tuple holding its value, so that hintsAt(v) is true for the value and false
\* for every other.
C10_KnownHintsSingleton ==
    /\ sq.state \in {"c", "s"} =>
          (sq.hintsType = "tuple" /\ sq.hints = <<sq.value[1]>>)
    /\ (call = "hintsAt" /\ sq.state \in {"c", "s"}) =>
          (err = "none" /\ ret = <<args[1] = sq.value[1]>>)

====
